---- MODULE Spec2Model ----
(***************************************************************************)
(* Model of ghost-controller: src/vmManager.py (AlpineVMManager, main) and *)
(* src/utils/utils.py (getOrCreateISO).                                    *)
(*                                                                         *)
(* SpecSetup drives AlpineVMManager.automate_alpine_setup against a        *)
(* console whose expect/sendline calls may succeed or raise.               *)
(***************************************************************************)
EXTENDS Integers, Sequences, FiniteSets, TLC

VARIABLES
    s_pc,      \* position inside automate_alpine_setup
    args,      \* arguments of the automate_alpine_setup call
    i,         \* index of the for loop over expectations (1-based)
    console,   \* the pexpect child: "none", "open" or "closed"
    io,        \* calls made on the console so far, with their results
    exc,       \* exception in flight (or raised to the caller)
    stdout,    \* lines printed so far
    calls,     \* the getOrCreateISO calls: position and locals of each
    fs,        \* the files under <cwd>/utils, by path
    net,       \* the HTTP GET requests issued so far
    m_pc,      \* position inside main (and inside the create_vm it calls)
    m_exc,     \* exception in flight inside main's try
    manager,   \* TRUE once main's local 'manager' is bound
    conn,      \* the libvirt connection: "unopened", "open" or "closed"
    idx,       \* index into vm_configs of the for loop of main (1-based)
    vms,       \* main's list of the domains create_vm returned
    domains,   \* state of each domain on the hypervisor
    hvlog      \* calls made on libvirt (connection and domains) so far

setupVars == <<s_pc, args, i, console, io, exc>>
isoVars == <<calls, fs, net>>
mainVars == <<m_pc, m_exc, manager, conn, idx, vms, domains, hvlog>>
vars == <<s_pc, args, i, console, io, exc, stdout, calls, fs, net,
          m_pc, m_exc, manager, conn, idx, vms, domains, hvlog>>

----------------------------------------------------------------------------
(* Inputs of automate_alpine_setup *)

VmNames == {"alpine1", "alpine2", "alpine3"}
Hostnames == {"ghost1", "ghost2"}
Keyboards == {"us", "de"}
DiskModes == {"sys", "data"}
RootPasswords == {"alpine123", "s3cret"}

NoArgs == [vm_name |-> "", hostname |-> "", keyboard |-> "", disk_mode |-> "", root_password |-> ""]

NoExc == [type |-> "None", searcher |-> ""]

(* What a console.expect call can do: return on a match, raise            *)
(* pexpect.TIMEOUT, or raise pexpect.EOF when the child's output ends.    *)
ExpectOutcomes == {"match", "TIMEOUT", "EOF"}

(* console.sendline writes to the child's pty; the write can raise OSError *)
SendOutcomes == {"ok", "OSError"}

(* pexpect.spawn either starts virsh or raises ExceptionPexpect *)
SpawnOutcomes == {"ok", "ExceptionPexpect"}

ExpectOp(pattern, res) == [op |-> "expect", arg |-> pattern, res |-> res]
SendOp(line, res) == [op |-> "sendline", arg |-> line, res |-> res]
CloseOp == [op |-> "close", arg |-> "", res |-> "ok"]

(* The exception object raised by console.expect: pexpect puts the         *)
(* searcher (the pattern being waited for) in the exception's message.     *)
ExpectExc(pattern, res) == IF res = "match" THEN NoExc ELSE [type |-> res, searcher |-> pattern]

SendExc(res) == IF res = "ok" THEN NoExc ELSE [type |-> res, searcher |-> ""]

expectations(keyboard, hostname, disk_mode, root_password) ==
    << <<"Select keyboard layout", keyboard>>,
       <<"Select variant", keyboard>>,
       <<"Enter system hostname", hostname>>,
       <<"Which one do you want to initialize", "eth0">>,
       <<"Ip address for eth0", "dhcp">>,
       <<"Do you want to do any manual network configuration", "n">>,
       <<"New password", root_password>>,
       <<"Retype password", root_password>>,
       <<"Which timezone", "UTC">>,
       <<"HTTP/FTP proxy URL", "none">>,
       <<"Which NTP client to run", "chrony">>,
       <<"Which SSH server", "openssh">>,
       <<"Which disk\\(s\\) would you like to use", "vda">>,
       <<"How would you like to use it", disk_mode>>,
       <<"WARNING: Erase the above disk\\(s\\) and continue", "y">> >>

Expectations(a) == expectations(a.keyboard, a.hostname, a.disk_mode, a.root_password)

(* the (expect_text, response) pair the for loop is at *)
StepPattern(a, k) == Expectations(a)[k][1]

StepResponse(a, k) == Expectations(a)[k][2]

(* the except clause: only pexpect.exceptions.TIMEOUT is caught *)
Handler(type) == IF type = "TIMEOUT" THEN "except_timeout" ELSE "finally"

AfterExpect_IgnoreTimeout(next, res) == IF res \in {"match", "TIMEOUT"} THEN next ELSE Handler(res)

AfterExpect_IgnoreEOF(next, res) == IF res \in {"match", "EOF"} THEN next ELSE Handler(res)

AfterExpect_RebootAnyway(next, res) ==
    IF res = "match" \/ next = "send_reboot" THEN next ELSE Handler(res)

(* where control goes after console.expect returned or raised *)
AfterExpect(next, res) == IF res = "match" THEN next ELSE Handler(res)

(* where control goes after console.sendline returned or raised *)
AfterSend(next, res) == IF res = "ok" THEN next ELSE Handler(res)

NextStep_Skip(k) == k + 2

(* the for loop advances to the following pair *)
NextStep(k) == k + 1

LoopHead_Short(a, k) == IF k < Len(Expectations(a)) THEN "loop_expect" ELSE "expect_complete"

(* head of the for loop: another pair, or fall through to line 140 *)
LoopHead(a, k) == IF k <= Len(Expectations(a)) THEN "loop_expect" ELSE "expect_complete"

FinallyOps_OnSuccessOnly(e) == IF e = NoExc THEN <<CloseOp>> ELSE <<>>

(* the finally clause: console.close() whatever happened in the try *)
FinallyOps(e) == <<CloseOp>>

ExceptBody_Swallow(e) == NoExc

(* body of the except clause ends in a bare raise: the TIMEOUT goes on *)
ExceptBody(e) == e

SuccessLine(a) == <<"Successfully automated setup for VM", a.vm_name>>
TimeoutLine(a) == <<"Timeout occurred while setting up", a.vm_name>>

----------------------------------------------------------------------------
(* automate_alpine_setup, one action per statement *)

(* a caller invokes manager.automate_alpine_setup(vm_name, hostname, ...) *)
CallSetup ==
    /\ s_pc = "idle"
    /\ \E n \in VmNames, h \in Hostnames, k \in Keyboards, d \in DiskModes, p \in RootPasswords :
          args' = [vm_name |-> n, hostname |-> h, keyboard |-> k, disk_mode |-> d, root_password |-> p]
    /\ s_pc' = "spawn"
    /\ UNCHANGED <<i, console, io, exc, stdout>>
    /\ UNCHANGED <<isoVars, mainVars>>

(* time.sleep(10); console = pexpect.spawn('virsh console ...'), outside the try *)
Spawn ==
    /\ s_pc = "spawn"
    /\ \E r \in SpawnOutcomes :
          IF r = "ok"
          THEN /\ console' = "open"
               /\ s_pc' = "expect_login"
               /\ exc' = NoExc
          ELSE /\ console' = console
               /\ s_pc' = "raised"
               /\ exc' = [type |-> r, searcher |-> ""]
    /\ UNCHANGED <<args, i, io, stdout>>
    /\ UNCHANGED <<isoVars, mainVars>>

DoExpect(at, pattern, next) ==
    /\ s_pc = at
    /\ \E r \in ExpectOutcomes :
          /\ io' = Append(io, ExpectOp(pattern, r))
          /\ exc' = ExpectExc(pattern, r)
          /\ s_pc' = AfterExpect(next, r)
    /\ UNCHANGED <<args, console, stdout>>
    /\ UNCHANGED <<isoVars, mainVars>>

DoSend(at, line, next) ==
    /\ s_pc = at
    /\ \E r \in SendOutcomes :
          /\ io' = Append(io, SendOp(line, r))
          /\ exc' = SendExc(r)
          /\ s_pc' = AfterSend(next, r)
    /\ UNCHANGED <<args, console, stdout>>
    /\ UNCHANGED <<isoVars, mainVars>>

ExpectLogin == DoExpect("expect_login", "login:", "send_root") /\ UNCHANGED i

SendRoot == DoSend("send_root", "root", "expect_prompt") /\ UNCHANGED i

ExpectPrompt == DoExpect("expect_prompt", "localhost:~#", "send_setup") /\ UNCHANGED i

(* console.sendline('setup-alpine'), then the list is built and the loop entered *)
SendSetup == DoSend("send_setup", "setup-alpine", LoopHead(args, 1)) /\ i' = 1

LoopExpect == DoExpect("loop_expect", StepPattern(args, i), "loop_send") /\ UNCHANGED i

(* console.sendline(response); time.sleep(1); next iteration *)
LoopSend ==
    /\ DoSend("loop_send", StepResponse(args, i), LoopHead(args, NextStep(i)))
    /\ i' = NextStep(i)

ExpectComplete == DoExpect("expect_complete", "Installation is complete", "send_reboot") /\ UNCHANGED i

SendReboot == DoSend("send_reboot", "reboot", "print_success") /\ UNCHANGED i

PrintSuccess ==
    /\ s_pc = "print_success"
    /\ stdout' = Append(stdout, SuccessLine(args))
    /\ s_pc' = "finally"
    /\ UNCHANGED <<args, i, console, io, exc>>
    /\ UNCHANGED <<isoVars, mainVars>>

(* except pexpect.exceptions.TIMEOUT: print(...); raise *)
ExceptTimeout ==
    /\ s_pc = "except_timeout"
    /\ stdout' = Append(stdout, TimeoutLine(args))
    /\ exc' = ExceptBody(exc)
    /\ s_pc' = "finally"
    /\ UNCHANGED <<args, i, console, io>>
    /\ UNCHANGED <<isoVars, mainVars>>

(* finally: console.close(); then return, or the exception goes on to the caller *)
Finally ==
    /\ s_pc = "finally"
    /\ io' = io \o FinallyOps(exc)
    /\ console' = IF FinallyOps(exc) = <<>> THEN console ELSE "closed"
    /\ s_pc' = IF exc = NoExc THEN "returned" ELSE "raised"
    /\ UNCHANGED <<args, i, exc, stdout>>
    /\ UNCHANGED <<isoVars, mainVars>>

SetupNext ==
    \/ CallSetup
    \/ Spawn
    \/ ExpectLogin
    \/ SendRoot
    \/ ExpectPrompt
    \/ SendSetup
    \/ LoopExpect
    \/ LoopSend
    \/ ExpectComplete
    \/ SendReboot
    \/ PrintSuccess
    \/ ExceptTimeout
    \/ Finally


----------------------------------------------------------------------------
(* getOrCreateISO (src/utils/utils.py) *)

MaxCalls == 2      \* getOrCreateISO calls made by callers other than main
BodyChunks == 2    \* chunks of 1024 bytes in the body of a 200 response

MainCall == 0
OtherCalls == 1..MaxCalls
CallIds == {MainCall} \cup OtherCalls

Urls == {"dl-cdn.alpinelinux.org", "mirror.example.org"}
Versions == {<<"3", "20", "0">>}        \* "3.20.0" as version.split(".") sees it
Architectures == {"x86_64", "aarch64"}

(* ".".join(version.split(".")[:2]) *)
versionPrefix(version) == SubSeq(version, 1, IF Len(version) < 2 THEN Len(version) ELSE 2)

(* the format string of line 9: host, version prefix, architecture, file name *)
downloadUrl(url, version, architecture) ==
    [host |-> url, prefix |-> versionPrefix(version), dir |-> architecture,
     file |-> <<"alpine-standard", version, architecture>>]

(* os.path.join(os.getcwd(), "utils", "alpine-standard-{version}-{architecture}.iso") *)
file_path(version, architecture) ==
    [dir |-> "utils", file |-> <<"alpine-standard", version, architecture>>]

Paths == {file_path(v, a) : v \in Versions, a \in Architectures}

NoPath == [dir |-> "", file |-> <<>>]
NoFile == [exists |-> FALSE, data |-> <<>>]
EmptyFile == [exists |-> TRUE, data |-> <<>>]

(* the body of a 200 response, as iter_content(1024) yields it *)
Body == [k \in 1..BodyChunks |-> k]
CompleteFile == [exists |-> TRUE, data |-> Body]

IdleCall == [pc |-> "idle", url |-> "", version |-> <<>>, architecture |-> "",
             status |-> 0, chunk |-> 0, result |-> NoPath, err |-> "None", after |-> {}]

CallPath(c) == file_path(calls[c].version, calls[c].architecture)
CallUrl(c) == downloadUrl(calls[c].url, calls[c].version, calls[c].architecture)

(* requests.get returns a response with a status, or raises *)
GetOutcomes == {"200", "404", "ConnectionError"}
StatusOf(r) == IF r = "200" THEN 200 ELSE 404

(* open(file_path, "wb") and file.write(chunk) succeed or raise OSError *)
IoOutcomes == {"ok", "OSError"}

Finished(c) == calls[c].pc \in {"done", "raised"}

(* file.write(chunk) at the writer's own offset k; a gap left by another   *)
(* writer's truncation reads as zeros                                      *)
WriteAt(data, k) ==
    IF k <= Len(data)
    THEN [data EXCEPT ![k] = k]
    ELSE data \o [j \in 1..(k - 1 - Len(data)) |-> 0] \o <<k>>

(* getOrCreateISO(url, version, architecture) is entered *)
BeginCall(c, u, v, a) ==
    calls' = [calls EXCEPT ![c] = [IdleCall EXCEPT !.pc = "get", !.url = u, !.version = v,
                                       !.architecture = a,
                                       !.after = {d \in CallIds : Finished(d)}]]

(* a caller other than main (such as utils.py run as a script) calls it *)
StartCall(c) ==
    /\ c \in OtherCalls
    /\ calls[c].pc = "idle"
    /\ \A d \in OtherCalls : d < c => calls[d].pc # "idle"
    /\ \E u \in Urls, v \in Versions, a \in Architectures : BeginCall(c, u, v, a)
    /\ UNCHANGED <<fs, net, stdout, setupVars, mainVars>>

(* response = requests.get(downloadUrl), before anything else *)
IsoGet(c) ==
    /\ calls[c].pc = "get"
    /\ net' = Append(net, [call |-> c, url |-> CallUrl(c)])
    /\ \E r \in GetOutcomes :
          IF r = "ConnectionError"
          THEN calls' = [calls EXCEPT ![c].pc = "raised", ![c].err = r]
          ELSE calls' = [calls EXCEPT ![c].pc = "exists", ![c].status = StatusOf(r)]
    /\ UNCHANGED <<fs, stdout, setupVars, mainVars>>

(* if os.path.exists(file_path): return it; else download or raise *)
IsoExists(c) ==
    /\ calls[c].pc = "exists"
    /\ IF fs[CallPath(c)].exists
       THEN calls' = [calls EXCEPT ![c].pc = "done", ![c].result = CallPath(c)]
       ELSE IF calls[c].status = 200
            THEN calls' = [calls EXCEPT ![c].pc = "open"]
            ELSE calls' = [calls EXCEPT ![c].pc = "raised", ![c].err = "Exception"]
    /\ UNCHANGED <<fs, net, stdout, setupVars, mainVars>>

(* with open(file_path, "wb") as file: creates or truncates the file *)
IsoOpen(c) ==
    /\ calls[c].pc = "open"
    /\ \E r \in IoOutcomes :
          IF r = "ok"
          THEN /\ fs' = [fs EXCEPT ![CallPath(c)] = EmptyFile]
               /\ calls' = [calls EXCEPT ![c].pc = "write", ![c].chunk = 1]
          ELSE /\ fs' = fs
               /\ calls' = [calls EXCEPT ![c].pc = "raised", ![c].err = r]
    /\ UNCHANGED <<net, stdout, setupVars, mainVars>>

(* one turn of the chunk loop: file.write(chunk); after the last chunk the *)
(* file is closed and file_path returned                                   *)
IsoWrite(c) ==
    /\ calls[c].pc = "write"
    /\ IF calls[c].chunk > BodyChunks
       THEN /\ calls' = [calls EXCEPT ![c].pc = "done", ![c].result = CallPath(c)]
            /\ fs' = fs
       ELSE \E r \in IoOutcomes :
               IF r = "ok"
               THEN /\ fs' = [fs EXCEPT ![CallPath(c)].exists = TRUE,
                                         ![CallPath(c)].data = WriteAt(@, calls[c].chunk)]
                    /\ calls' = [calls EXCEPT ![c].chunk = @ + 1]
               ELSE /\ fs' = fs
                    /\ calls' = [calls EXCEPT ![c].pc = "raised", ![c].err = r]
    /\ UNCHANGED <<net, stdout, setupVars, mainVars>>

----------------------------------------------------------------------------
(* main and AlpineVMManager.__init__, create_vm, cleanup (src/vmManager.py) *)

vm_configs ==
    << [name |-> "alpine1", memory_mb |-> 512, vcpus |-> 1, disk_size_gb |-> 2],
       [name |-> "alpine2", memory_mb |-> 512, vcpus |-> 1, disk_size_gb |-> 2],
       [name |-> "alpine3", memory_mb |-> 512, vcpus |-> 1, disk_size_gb |-> 2] >>

(* os.geteuid(): root or an ordinary user *)
Euids == {0, 1000}

(* libvirt.open returns a connection, returns None, or raises *)
OpenOutcomes == {"conn", "None", "libvirtError"}

(* the shared directory exists or is made by 'sudo mkdir' and 'sudo chmod'; *)
(* subprocess.run raises when sudo cannot be executed                       *)
SharedDirOutcomes == {"ok", "FileNotFoundError"}

(* conn.defineXML returns a domain, returns None, or raises *)
DefineOutcomes == {"domain", "None", "libvirtError"}

(* domain.create() returns, or raises *)
CreateOutcomes == {"ok", "libvirtError"}

HvOp(op, vm, res) == [op |-> op, vm |-> vm, res |-> res]

(* head of the for loop over vm_configs: next create_vm, or line 177 *)
MainLoopHead(k) == IF k <= Len(vm_configs) THEN "define" ELSE "print"

(* if os.geteuid() != 0: print(...); return *)
MainStart ==
    /\ m_pc = "start"
    /\ \E euid \in Euids :
          IF euid # 0
          THEN /\ stdout' = Append(stdout, <<"This script needs to be run as root (sudo)">>)
               /\ m_pc' = "done"
          ELSE /\ stdout' = stdout
               /\ m_pc' = "iso"
    /\ UNCHANGED <<m_exc, manager, conn, idx, vms, domains, hvlog, isoVars, setupVars>>

(* iso_path = getOrCreateISO("dl-cdn.alpinelinux.org", "3.20.0", "x86_64") *)
MainCallISO ==
    /\ m_pc = "iso"
    /\ BeginCall(MainCall, "dl-cdn.alpinelinux.org", <<"3", "20", "0">>, "x86_64")
    /\ m_pc' = "iso_wait"
    /\ UNCHANGED <<m_exc, manager, conn, idx, vms, domains, hvlog, fs, net, stdout, setupVars>>

AfterISO_GoOn(p) == "init"

(* line 160 sits inside the try: a raise of getOrCreateISO goes to except *)
AfterISO(p) == IF p = "done" THEN "init" ELSE "except"

(* getOrCreateISO returned iso_path, or raised into main's try *)
MainIsoReturn ==
    /\ m_pc = "iso_wait"
    /\ Finished(MainCall)
    /\ m_pc' = AfterISO(calls[MainCall].pc)
    /\ m_exc' = IF calls[MainCall].pc = "done" THEN m_exc ELSE calls[MainCall].err
    /\ UNCHANGED <<manager, conn, idx, vms, domains, hvlog, isoVars, stdout, setupVars>>

(* manager = AlpineVMManager(iso_path); vm_configs = [...]; vms = []        *)
(* __init__ opens the connection, then sets up the shared directory; when  *)
(* __init__ raises, main's local 'manager' is never bound                  *)
MainNewManager ==
    /\ m_pc = "init"
    /\ \E r \in OpenOutcomes, d \in SharedDirOutcomes :
          /\ hvlog' = Append(hvlog, HvOp("open", "", r))
          /\ conn' = IF r = "conn" THEN "open" ELSE conn
          /\ IF r = "conn" /\ d = "ok"
             THEN /\ manager' = TRUE
                  /\ idx' = 1
                  /\ m_pc' = MainLoopHead(1)
                  /\ m_exc' = m_exc
             ELSE /\ manager' = manager
                  /\ idx' = idx
                  /\ m_pc' = "except"
                  /\ m_exc' = IF r = "None" THEN "Exception" ELSE IF r = "conn" THEN d ELSE r
    /\ UNCHANGED <<vms, domains, isoVars, stdout, setupVars>>

AfterDefine_NoCheck(r) == IF r \in {"domain", "None"} THEN "create" ELSE "except"

(* if domain is None: raise Exception(...); a raise of defineXML goes on too *)
AfterDefine(r) == IF r = "domain" THEN "create" ELSE "except"

(* create_vm up to the check of defineXML's result: qemu-img create,        *)
(* domain = self.conn.defineXML(xml_config); if domain is None: raise       *)
DefineVM ==
    /\ m_pc = "define"
    /\ \E r \in DefineOutcomes :
          /\ hvlog' = Append(hvlog, HvOp("defineXML", vm_configs[idx].name, r))
          /\ m_pc' = AfterDefine(r)
          /\ IF r = "domain"
             THEN /\ domains' = [domains EXCEPT ![vm_configs[idx].name] = "defined"]
                  /\ m_exc' = m_exc
             ELSE /\ domains' = domains
                  /\ m_exc' = IF r = "None" THEN "Exception" ELSE r
    /\ UNCHANGED <<manager, conn, idx, vms, isoVars, stdout, setupVars>>

(* domain.create(); print(...); return domain; vms.append(vm); next config *)
StartVM ==
    /\ m_pc = "create"
    /\ \E r \in CreateOutcomes :
          /\ hvlog' = Append(hvlog, HvOp("create", vm_configs[idx].name, r))
          /\ IF r = "ok"
             THEN /\ domains' = [domains EXCEPT ![vm_configs[idx].name] = "running"]
                  /\ stdout' = Append(stdout, <<"Created and started VM", vm_configs[idx].name>>)
                  /\ vms' = Append(vms, vm_configs[idx].name)
                  /\ idx' = idx + 1
                  /\ m_pc' = MainLoopHead(idx + 1)
                  /\ m_exc' = m_exc
             ELSE /\ domains' = domains
                  /\ stdout' = stdout
                  /\ vms' = vms
                  /\ idx' = idx
                  /\ m_pc' = "except"
                  /\ m_exc' = r
    /\ UNCHANGED <<manager, conn, isoVars, setupVars>>

(* the prints of lines 177-183 *)
MainPrint ==
    /\ m_pc = "print"
    /\ stdout' = stdout \o << <<"All Alpine Linux VMs created successfully!">> >>
                        \o [k \in 1..Len(vm_configs) |-> <<"sudo virsh console", vm_configs[k].name>>]
    /\ m_pc' = "finally"
    /\ UNCHANGED <<m_exc, manager, conn, idx, vms, domains, hvlog, isoVars, setupVars>>

(* except Exception as e: print(f"Error: {e}") *)
MainExcept ==
    /\ m_pc = "except"
    /\ stdout' = Append(stdout, <<"Error", m_exc>>)
    /\ m_pc' = "finally"
    /\ UNCHANGED <<m_exc, manager, conn, idx, vms, domains, hvlog, isoVars, setupVars>>

CleanupOps_OnSuccessOnly(m, e) ==
    IF m /\ e = "None" THEN <<HvOp("close", "", "ok")>> ELSE <<>>

(* the libvirt calls of the finally clause: cleanup() closes the connection *)
(* when 'manager' is bound, whatever happened in the try                    *)
CleanupOps(m, e) == IF m THEN <<HvOp("close", "", "ok")>> ELSE <<>>

(* finally: if 'manager' in locals(): manager.cleanup(), which closes conn *)
MainFinally ==
    /\ m_pc = "finally"
    /\ hvlog' = hvlog \o CleanupOps(manager, m_exc)
    /\ conn' = IF CleanupOps(manager, m_exc) = <<>> THEN conn ELSE "closed"
    /\ m_pc' = "done"
    /\ UNCHANGED <<m_exc, manager, idx, vms, domains, isoVars, stdout, setupVars>>

----------------------------------------------------------------------------
(* Specifications *)

MainPath == file_path(<<"3", "20", "0">>, "x86_64")

(* a file an interrupted download left behind *)
PartialFile == [exists |-> TRUE, data |-> SubSeq(Body, 1, BodyChunks - 1)]

InitWith(files) ==
    /\ s_pc = "idle"
    /\ args = NoArgs
    /\ i = 0
    /\ console = "none"
    /\ io = <<>>
    /\ exc = NoExc
    /\ stdout = <<>>
    /\ calls = [c \in CallIds |-> IdleCall]
    /\ net = <<>>
    /\ fs = files
    /\ m_pc = "start"
    /\ m_exc = "None"
    /\ manager = FALSE
    /\ conn = "unopened"
    /\ idx = 0
    /\ vms = <<>>
    /\ domains = [n \in VmNames |-> "undefined"]
    /\ hvlog = <<>>

EmptyDir == [p \in Paths |-> NoFile]

(* automate_alpine_setup called on a manager *)
InitSetup == InitWith(EmptyDir)

SpecSetup == InitSetup /\ [][SetupNext]_vars

(* getOrCreateISO called by up to MaxCalls callers, possibly at the same *)
(* time, starting from an empty utils directory                          *)
InitISO == InitWith(EmptyDir)

NextISO ==
    \/ \E c \in OtherCalls : StartCall(c)
    \/ \E c \in OtherCalls : IsoGet(c)
    \/ \E c \in OtherCalls : IsoExists(c)
    \/ \E c \in OtherCalls : IsoOpen(c)
    \/ \E c \in OtherCalls : IsoWrite(c)

SpecISO == InitISO /\ [][NextISO]_vars

(* one run of main; the ISO may be absent, or left by an earlier run *)
Init == \E f \in {NoFile, CompleteFile, PartialFile} : InitWith([EmptyDir EXCEPT ![MainPath] = f])

Next ==
    \/ MainStart
    \/ MainCallISO
    \/ IsoGet(MainCall)
    \/ IsoExists(MainCall)
    \/ IsoOpen(MainCall)
    \/ IsoWrite(MainCall)
    \/ MainIsoReturn
    \/ MainNewManager
    \/ DefineVM
    \/ StartVM
    \/ MainPrint
    \/ MainExcept
    \/ MainFinally

Spec == Init /\ [][Next]_vars

----------------------------------------------------------------------------
(* Properties of automate_alpine_setup (checked under SpecSetup) *)

SetupDone == s_pc \in {"returned", "raised"}

IsExpect(e) == e.op = "expect"
IsSend(e) == e.op = "sendline"
IsClose(e) == e.op = "close"

(* number of expect / sendline / close calls among the first j console calls *)
NumExpects(j) == Len(SelectSeq(SubSeq(io, 1, j), IsExpect))
NumSends(j) == Len(SelectSeq(SubSeq(io, 1, j), IsSend))
NumCloses(j) == Len(SelectSeq(SubSeq(io, 1, j), IsClose))

SentLines == [j \in 1..NumSends(Len(io)) |-> SelectSeq(io, IsSend)[j].arg]

(* the dialogue as declared: what is waited for, and what is answered *)
DeclaredPatterns(a) ==
    <<"login:", "localhost:~#">>
        \o [k \in 1..Len(Expectations(a)) |-> Expectations(a)[k][1]]
        \o <<"Installation is complete">>

DeclaredLines(a) ==
    <<"root", "setup-alpine">>
        \o [k \in 1..Len(Expectations(a)) |-> Expectations(a)[k][2]]
        \o <<"reboot">>

ChannelCooperates ==
    /\ console # "none"
    /\ \A j \in 1..Len(io) : io[j].res \in {"match", "ok"}

(* C1: when the console matches every expected pattern (and accepts every  *)
(* line), a finished run has sent exactly: the login name, the installer   *)
(* command, the responses of all steps in declared order, the reboot       *)
(* command; and it returned normally after reporting success.              *)
C1_StepOrderDeterminism ==
    (SetupDone /\ ChannelCooperates) =>
        /\ s_pc = "returned"
        /\ exc = NoExc
        /\ SentLines = DeclaredLines(args)
        /\ stdout = <<SuccessLine(args)>>

C1_Witness ==
    /\ s_pc = "returned"
    /\ ChannelCooperates
    /\ Len(SentLines) = Len(Expectations(args)) + 3

(* C2: when an expect times out, nothing but the close follows it on the   *)
(* console, the run never returns normally, and the exception that reaches *)
(* the caller is the TIMEOUT of exactly that wait: its searcher is the     *)
(* pattern of that wait and of no other wait of the dialogue.              *)
C2_TimeoutIsolation ==
    \A j \in 1..Len(io) :
        (IsExpect(io[j]) /\ io[j].res = "TIMEOUT") =>
            /\ \A m \in (j+1)..Len(io) : IsClose(io[m])
            /\ s_pc # "returned"
            /\ SuccessLine(args) \notin {stdout[m] : m \in 1..Len(stdout)}
            /\ SetupDone =>
                  /\ s_pc = "raised"
                  /\ exc.type = "TIMEOUT"
                  /\ exc.searcher = DeclaredPatterns(args)[NumExpects(j)]
                  /\ \A k \in 1..Len(DeclaredPatterns(args)) :
                        k # NumExpects(j) => DeclaredPatterns(args)[k] # exc.searcher

(* the wait of the fourth step of the loop timed out and the run is over *)
C2_Witness ==
    /\ s_pc = "raised"
    /\ exc.type = "TIMEOUT"
    /\ i = 4
    /\ io[Len(io) - 1] = ExpectOp(StepPattern(args, 4), "TIMEOUT")
    /\ NumSends(Len(io)) = 5

(* C7: every line sent is immediately preceded by a successful expect of   *)
(* the prompt it answers, every expect but the first directly follows a    *)
(* send, and sends never outnumber successful expects.                     *)
C7_NeverSendsAhead ==
    /\ \A j \in 1..Len(io) :
          IsSend(io[j]) =>
              /\ j > 1
              /\ io[j-1] = ExpectOp(DeclaredPatterns(args)[NumSends(j)], "match")
              /\ io[j].arg = DeclaredLines(args)[NumSends(j)]
    /\ \A j \in 2..Len(io) : IsExpect(io[j]) => (IsSend(io[j-1]) /\ io[j-1].res = "ok")
    /\ NumSends(Len(io)) <= Len(SelectSeq(io, LAMBDA e : IsExpect(e) /\ e.res = "match"))

C7_Witness ==
    /\ NumSends(Len(io)) = 10
    /\ NumExpects(Len(io)) = 11
    /\ s_pc = "except_timeout"

(* C8: the reboot command is sent only right after the completion marker   *)
(* matched, which itself follows the last step's response; if the wait for *)
(* the completion marker times out the run fails with that TIMEOUT and no  *)
(* reboot is ever sent.                                                    *)
C8_RebootOnlyAfterCompletion ==
    /\ \A j \in 1..Len(io) :
          (IsSend(io[j]) /\ io[j].arg = "reboot") =>
              /\ j > 2
              /\ io[j-1] = ExpectOp("Installation is complete", "match")
              /\ io[j-2] = SendOp(Expectations(args)[Len(Expectations(args))][2], "ok")
    /\ \A j \in 1..Len(io) :
          (io[j] = ExpectOp("Installation is complete", "TIMEOUT")) =>
              /\ \A m \in 1..Len(io) : ~(IsSend(io[m]) /\ io[m].arg = "reboot")
              /\ s_pc # "returned"
              /\ SetupDone => (s_pc = "raised" /\ exc.type = "TIMEOUT")

C8_Witness ==
    /\ s_pc = "raised"
    /\ Len(io) > 2
    /\ io[Len(io) - 1] = ExpectOp("Installation is complete", "TIMEOUT")
    /\ NumSends(Len(io)) = Len(Expectations(args)) + 2

(* C9: when an expect ends in EOF, nothing but the close follows on the    *)
(* console, success is never printed, the run never returns normally and   *)
(* the EOF exception reaches the caller.                                   *)
C9_EOFIsTerminalFailure ==
    \A j \in 1..Len(io) :
        (IsExpect(io[j]) /\ io[j].res = "EOF") =>
            /\ \A m \in (j+1)..Len(io) : IsClose(io[m])
            /\ s_pc \in {"finally", "raised"}
            /\ exc.type = "EOF"
            /\ stdout = <<>>

C9_Witness ==
    /\ s_pc = "raised"
    /\ exc.type = "EOF"
    /\ i = 7
    /\ NumExpects(Len(io)) = 9

(* C10: once the console was opened, a finished run has closed it exactly  *)
(* once; it is never closed twice and no call is made on it after close.   *)
C10_ConsoleClosedExactlyOnce ==
    /\ NumCloses(Len(io)) <= 1
    /\ \A j \in 1..Len(io) : IsClose(io[j]) => j = Len(io)
    /\ (console = "closed") <=> (NumCloses(Len(io)) = 1)
    /\ (SetupDone /\ console # "none") =>
          (console = "closed" /\ NumCloses(Len(io)) = 1)

(* a run that died on a failed write still closed the console *)
C10_Witness ==
    /\ s_pc = "raised"
    /\ exc.type = "OSError"
    /\ console = "closed"
    /\ io[Len(io)] = CloseOp
    /\ Len(io) > 6

IsPrefix(s, t) == Len(s) <= Len(t) /\ s = SubSeq(t, 1, Len(s))

WaitedPatterns == [j \in 1..NumExpects(Len(io)) |-> SelectSeq(io, IsExpect)[j].arg]

(* C15: whatever the console does, the patterns waited for so far are a    *)
(* prefix of (login prompt, shell prompt, step patterns, completion        *)
(* marker), the lines sent so far are a prefix of (login name, installer   *)
(* command, step responses, reboot), and no expect follows a failed one.   *)
C15_StrictLinearity ==
    /\ IsPrefix(WaitedPatterns, DeclaredPatterns(args))
    /\ IsPrefix(SentLines, DeclaredLines(args))
    /\ \A j \in 1..Len(io) :
          (IsExpect(io[j]) /\ io[j].res # "match") =>
              \A m \in (j+1)..Len(io) : ~IsExpect(io[m])
    /\ \A j \in 1..Len(io) :
          (IsSend(io[j]) /\ io[j].res # "ok") =>
              \A m \in (j+1)..Len(io) : IsClose(io[m])

(* the write of the last step's response failed and the run is over *)
C15_Witness ==
    /\ s_pc = "raised"
    /\ exc.type = "OSError"
    /\ NumSends(Len(io)) = Len(Expectations(args)) + 2
    /\ NumExpects(Len(io)) = Len(Expectations(args)) + 2

----------------------------------------------------------------------------
(* Properties of getOrCreateISO (checked under SpecISO) *)

SameArguments(c, d) ==
    /\ calls[c].url = calls[d].url
    /\ calls[c].version = calls[d].version
    /\ calls[c].architecture = calls[d].architecture

Transfers(c) == Cardinality({j \in 1..Len(net) : net[j].call = c})

(* C3: of two calls with identical arguments, the second entered after the *)
(* first returned a path, the second issues no HTTP request and returns    *)
(* the same path.                                                          *)
C3_CacheIdempotence ==
    \A c, d \in OtherCalls :
        (c \in calls[d].after /\ calls[c].pc = "done" /\ SameArguments(c, d) /\ Finished(d)) =>
            /\ Transfers(d) = 0
            /\ calls[d].pc = "done"
            /\ calls[d].result = calls[c].result

(* the call skipped the download: it returned the path of a file it found *)
CacheHit(c) == calls[c].pc = "done" /\ calls[c].chunk = 0

(* the call downloaded the whole body and closed the file *)
FetchedAll(c) == calls[c].pc = "done" /\ calls[c].chunk > BodyChunks

(* C11: a call whose transfer came back with a non-success status fails    *)
(* with an error, returns no path, and has written nothing at its path.    *)
C11_NonSuccessStatusFails ==
    \A c \in OtherCalls :
        (calls[c].status = 404 /\ Finished(c)) =>
            /\ calls[c].pc = "raised"
            /\ calls[c].err = "Exception"
            /\ calls[c].result = NoPath
            /\ calls[c].chunk = 0

(* C12: a file exists at a canonical path only if some fetch of that path  *)
(* ran to completion, and a call that returns a file it found returns a    *)
(* completely written one.                                                 *)
C12_WriteThenPublish ==
    /\ \A p \in Paths :
          fs[p].exists => \E c \in OtherCalls : FetchedAll(c) /\ CallPath(c) = p
    /\ \A c \in OtherCalls :
          CacheHit(c) => fs[CallPath(c)] = CompleteFile

----------------------------------------------------------------------------
(* Properties of main (checked under Spec) *)

HvCalls(op, n) == {j \in 1..Len(hvlog) : hvlog[j].op = op /\ hvlog[j].vm = n}

(* create_vm both defined and started the VM *)
Started(n) == \E j \in HvCalls("create", n) : hvlog[j].res = "ok"

(* the VM's own define or start failed *)
FailedOwn(n) ==
    \/ \E j \in HvCalls("defineXML", n) : hvlog[j].res # "domain"
    \/ \E j \in HvCalls("create", n) : hvlog[j].res # "ok"

DestroyCalls(n) == Cardinality(HvCalls("destroy", n))

SetupRanFor(n) == s_pc # "idle" /\ args.vm_name = n
SetupCompletedFor(n) == s_pc = "returned" /\ args.vm_name = n

(* C4: when main has ended, every VM it defined and started has been       *)
(* destroyed exactly once if its installation did not complete, and not    *)
(* at all if it did.                                                       *)
C4_CleanupInvariant ==
    (m_pc = "done") =>
        \A n \in VmNames :
            Started(n) => DestroyCalls(n) = (IF SetupCompletedFor(n) THEN 0 ELSE 1)

(* C5: when main has ended, a VM whose define or start failed has not kept *)
(* any other VM of the batch from being defined and started: each other    *)
(* VM was started, or failed on its own.                                   *)
C5_BatchIndependence ==
    (m_pc = "done") =>
        \A n, o \in VmNames :
            (FailedOwn(n) /\ o # n) => (Started(o) \/ FailedOwn(o))

(* C6: when main has ended, automate_alpine_setup has been run against     *)
(* every VM that main defined and started.                                 *)
C6_InstallerFollowsStart ==
    (m_pc = "done") =>
        \A n \in VmNames : Started(n) => SetupRanFor(n)

(* main got past the root check and submitted its batch *)
BatchSubmitted == calls[MainCall].pc # "idle"

Printed(line) == \E j \in 1..Len(stdout) : stdout[j] = line
ErrorPrinted == \E j \in 1..Len(stdout) : stdout[j][1] = "Error"

(* the output tells what became of the VM: it was created, or it is the    *)
(* VM whose failure the error line is about                                *)
Reported(n) ==
    \/ Printed(<<"Created and started VM", n>>)
    \/ FailedOwn(n) /\ ErrorPrinted

(* C13: main ends without an exception, and when it has ended its output   *)
(* tells the fate of every VM of the batch, those never started included.  *)
C13_EveryFateReported ==
    (m_pc = "done" /\ BatchSubmitted) =>
        \A k \in 1..Len(vm_configs) : Reported(vm_configs[k].name)

(* C14: getOrCreateISO is invoked at most once by main, no libvirt call is *)
(* made and no domain defined before it has returned the path, and none at *)
(* all when it raised.                                                     *)
C14_MediaBeforeVMs ==
    /\ Transfers(MainCall) <= 1
    /\ (hvlog # <<>> \/ \E n \in VmNames : domains[n] # "undefined") =>
          (calls[MainCall].pc = "done" /\ calls[MainCall].result = MainPath)
    /\ (calls[MainCall].pc = "raised") =>
          (hvlog = <<>> /\ vms = <<>> /\ ~manager)

(* all three VMs were started after main downloaded the ISO itself *)
C14_Witness ==
    /\ m_pc = "done"
    /\ Len(vms) = Len(vm_configs)
    /\ FetchedAll(MainCall)
    /\ Transfers(MainCall) = 1

Closes == Cardinality({j \in 1..Len(hvlog) : hvlog[j].op = "close"})

(* C16: the connection is closed at most once and nothing is called on     *)
(* libvirt after the close; when main has ended with 'manager' bound the   *)
(* connection has been closed exactly once, create_vm failures included;   *)
(* with no manager, or no connection opened, no close is attempted.        *)
C16_ConnectionScoped ==
    /\ Closes <= 1
    /\ \A j \in 1..Len(hvlog) : hvlog[j].op = "close" => j = Len(hvlog)
    /\ (m_pc = "done" /\ manager) => (Closes = 1 /\ conn = "closed")
    /\ (~manager \/ conn = "unopened") => Closes = 0
    /\ (conn = "closed") <=> (Closes = 1)

(* create_vm failed for the second VM and main still closed the connection *)
C16_Witness ==
    /\ m_pc = "done"
    /\ manager
    /\ FailedOwn("alpine2")
    /\ Started("alpine1")
    /\ hvlog[Len(hvlog)] = HvOp("close", "", "ok")

(* C17: domain.create() is only ever called right after defineXML returned *)
(* a domain for the same VM; when defineXML yields None create_vm raises,  *)
(* create is never called for that VM and it gets no handle; every handle  *)
(* in vms is of a VM that was defined and started.                         *)
C17_StartOnlyAfterDefine ==
    /\ \A j \in 1..Len(hvlog) :
          hvlog[j].op = "create" =>
              (j > 1 /\ hvlog[j-1] = HvOp("defineXML", hvlog[j].vm, "domain"))
    /\ \A n \in VmNames :
          (\E j \in HvCalls("defineXML", n) : hvlog[j].res = "None") =>
              /\ HvCalls("create", n) = {}
              /\ \A k \in 1..Len(vms) : vms[k] # n
              /\ domains[n] = "undefined"
              /\ m_exc = "Exception"
              /\ m_pc \in {"except", "finally", "done"}
    /\ \A k \in 1..Len(vms) :
          /\ Started(vms[k])
          /\ domains[vms[k]] = "running"
          /\ \E j \in HvCalls("defineXML", vms[k]) : hvlog[j].res = "domain"

(* defineXML yielded None for the second VM: only the first has a handle *)
C17_Witness ==
    /\ m_pc = "done"
    /\ vms = <<"alpine1">>
    /\ \E j \in HvCalls("defineXML", "alpine2") : hvlog[j].res = "None"

====
